---- MODULE Spec2Model ----
(***************************************************************************)
(* The URL fetch-and-persist pipeline of research-gpt.                     *)
(*                                                                         *)
(* Two implementations of the pipeline live side by side in the source:   *)
(*   impl = "WebScraper" : class HtmlFetcher   (src/research_gpt/WebScraper.py) *)
(*   impl = "scrape"     : module functions    (src/research_gpt/scrape.py)     *)
(* and one search client (src/research_gpt/search.py, src/search.py).      *)
(*                                                                         *)
(* entry names the operation a behaviour runs:                             *)
(*   "run"    fetch_and_save_html_from_urls  (the retry scheduler)         *)
(*   "fetch"  fetch_html called directly     (the content fetcher)         *)
(*   "search" search_google                                                *)
(*   "store"  save_html_to_disk / load_html_from_disk called directly      *)
(*   "scrape" scrape of scrape.py: fetch_html, then process_html            *)
(*   "links"  extract_links called directly                                *)
(*                                                                         *)
(* Time is counted in whole clock units.  The scheduler only ever reads    *)
(* current_time - last_attempt_timestamp, so the model keeps that          *)
(* difference per URL (field since) instead of the two absolute values;    *)
(* the difference saturates at AgeCap, above every delay it is compared to.*)
(***************************************************************************)
EXTENDS Integers, Sequences, FiniteSets, TLC

(* ------------------------------ bounds --------------------------------- *)
NumUrls == 2
MaxRetriesBound == 3
MaxInitialDelay == 6
MaxRequestTimeout == 1
MaxFetchDur == 1
MaxStoreOps == 4
MaxDocLen == 3

(* ------------------------- program constants --------------------------- *)
\* scrape.py:20  calculate_retry_delay(retries, initial_retry_delay = 5)
DefaultInitialRetryDelay == 5
\* scrape.py:77 / scrape.py:105  initial_retry_delay = 3 of the strategy functions
StrategyInitialRetryDelay == 3
\* scrape.py:77  request_timeout = 15 of fetch_html_requests
StrategyRequestTimeout == 15
\* WebScraper.py:225 / scrape.py:348  time.sleep(0.1): one clock unit per idle pause
TickPause == 1

\* last_attempt_timestamp = None (WebScraper.py:189, scrape.py:313)
NoTimestamp == -1
\* a network call made without a timeout argument
NoTimeout == -1

Impls == {"WebScraper", "scrape"}
Entries == {"run", "fetch", "search", "store", "scrape", "links"}
URLS == 1..NumUrls
InitialDelays == {0, 1, MaxInitialDelay}

Max(a, b) == IF a >= b THEN a ELSE b
Min(a, b) == IF a <= b THEN a ELSE b

RECURSIVE Pow2(_)
Pow2(n) == IF n <= 0 THEN 1 ELSE 2 * Pow2(n - 1)

(* ------------------------------ bodies --------------------------------- *)
\* A page body is a sequence of text fragments; the empty sequence is "".
Keywords == {"Please enable JS", "captcha", "data-cfasync", "g-recaptcha"}
HttpBodies == {<<>>, <<"text">>, <<"text", "captcha">>}
BrowserBodies == {<<>>, <<"rendered">>, <<"g-recaptcha", "rendered">>}

\* Optional[str]: None, or a body
NoHtml == [present |-> FALSE, text |-> <<>>]
Html(b) == [present |-> TRUE, text |-> b]

\* any(keyword in html for keyword in keywords)
check_html_incomplete_load(html) ==
    \E i \in 1..Len(html) : html[i] \in Keywords

(* --------------------------- retry delay ------------------------------- *)
\* initial_retry_delay * (2 ** (retries - 1)).  For retries = 0 Python yields
\* the float initial_retry_delay * 0.5, so the operator returns TWICE the
\* delay, which is an integer for every retries >= 0.
calculate_retry_delay_x2(retries, initial_retry_delay) ==
    initial_retry_delay * Pow2(retries)

\* the delay itself, for retries >= 1 (the only case the retry loops sleep on)
calculate_retry_delay(retries, initial_retry_delay) ==
    calculate_retry_delay_x2(retries, initial_retry_delay) \div 2

(* ------------------------------- state --------------------------------- *)
VARIABLES
    impl,            \* which implementation runs
    entry,           \* which operation runs
    cfg,             \* its arguments / the fetcher's fields
    pc,              \* position of the single control thread
    urls,            \* the URLs submitted to run
    url_metadata,    \* url -> [retries, since]
    remaining_urls,  \* set(urls) minus the URLs finished
    failed_urls,     \* the failure list, in append order
    todo,            \* list(remaining_urls) not yet visited in this for loop
    url,             \* the URL being processed (0: none)
    attempt_elapsed, \* clock units since current_time was sampled for url
    fetch,           \* the fetch_html call in progress
    html_content,    \* what the last fetch_html call returned
    disk,            \* output_dir: file name -> file content
    raised,          \* the exception that left the operation ("none": none)
    attempts,        \* history: url -> outcomes of the fetch calls issued for it
    calls,           \* history: strategy invocations of the current fetch call
    sleeps,          \* history: backoff sleeps inside the current fetch call
    trace,           \* history: what the strategies did in the current fetch call
    search,          \* the locals of search_google, with its request/sleep history
    store,           \* a directory used through the store's two functions directly
    page             \* the argument and the result of extract_links and of scrape

vars == <<impl, entry, cfg, pc, urls, url_metadata, remaining_urls, failed_urls,
          todo, url, attempt_elapsed, fetch, html_content, disk, raised,
          attempts, calls, sleeps, trace, search, store, page>>

schedVars == <<url_metadata, remaining_urls, failed_urls, todo, url>>
histVars == <<attempts, calls, sleeps, trace, search>>

NoArgs == [use_retries |-> FALSE, max_retries |-> 0, initial_retry_delay |-> 0,
           request_timeout |-> 0]
NoFetch == [strategy |-> "none", retries |-> 0, args |-> NoArgs]
NoCalls == [requests |-> 0, selenium |-> 0]
NoSleeps == [requests |-> <<>>, selenium |-> <<>>]
NoResponse == [has_items |-> FALSE, items |-> <<>>]
NoSearch == [retries |-> 0, retry_delay |-> 0, results |-> <<>>, requests |-> 0,
             slept |-> <<>>, response |-> NoResponse]
NoResult == [kind |-> "none", list |-> <<>>]
NoStore == [dir |-> <<>>, ops |-> <<>>, loaded |-> NoResult]
NoDoc == [present |-> FALSE, elems |-> <<>>]
NoPage == [doc |-> NoDoc, href_links |-> <<>>, text |-> NoHtml, returned |-> FALSE]

(* ----------------------------- the store ------------------------------- *)
\* hashlib.sha256(input.encode("utf-8")).hexdigest(): a digest per input,
\* distinct inputs giving distinct digests
generate_hash(input) == <<"sha256", input>>

FileName(stem, ext) == [stem |-> stem, ext |-> ext]

\* a faulty variant of WriteFile: nothing reaches the directory
WriteFile_Dropped(d, name, content) == d

WriteFile(d, name, content) == (name :> content) @@ d

(* ------------------------------- time ---------------------------------- *)
\* the initial delay the scheduler's backoff is computed from:
\* self.calculate_retry_delay(retries) reads self.initial_retry_delay, while
\* scrape.py calls calculate_retry_delay(metadata["retries"]) with the
\* parameter's default
BackoffBase ==
    IF impl = "WebScraper" THEN cfg.initial_retry_delay ELSE DefaultInitialRetryDelay

\* since saturates at the largest delay a URL with this many retries can be
\* compared to (rounded up to a whole unit)
AgeCap(retries) ==
    (Max(BackoffBase, cfg.initial_retry_delay) * Pow2(retries) + 1) \div 2

Aged(u, d) ==
    LET m == url_metadata[u] IN
    IF m.since = NoTimestamp \/ u \notin remaining_urls THEN m.since
    ELSE Min(m.since + d, AgeCap(m.retries))

\* d clock units pass
Elapse(d) ==
    /\ url_metadata' = [u \in URLS |-> [url_metadata[u] EXCEPT !.since = Aged(u, d)]]
    /\ attempt_elapsed' =
          IF url = 0 THEN 0 ELSE Min(attempt_elapsed + d, AgeCap(cfg.max_retries - 1))

(* ------------------------------- Init ---------------------------------- *)
Configs ==
    [max_retries : 0..MaxRetriesBound,
     initial_retry_delay : InitialDelays,
     request_timeout : 1..MaxRequestTimeout,
     use_retries : BOOLEAN,
     api_key : BOOLEAN,
     cx : BOOLEAN]

Init ==
    /\ impl \in Impls
    /\ entry \in Entries
    /\ cfg \in Configs
    \* the search client is one code in two files and reads neither the
    \* fetcher's switch nor a timeout; the fetcher reads no credentials
    /\ entry = "search" =>
          impl = "WebScraper" /\ cfg.request_timeout = 1 /\ ~cfg.use_retries
    /\ entry # "search" => cfg.api_key /\ cfg.cx
    \* run always fetches with use_retries = False (WebScraper.py:206); the
    \* functions of scrape.py have no such switch
    /\ (entry = "run" \/ impl = "scrape") => cfg.use_retries = FALSE
    /\ urls \in IF entry = "run" THEN {1..n : n \in 0..NumUrls} ELSE {{}}
    /\ pc = IF entry = "run" THEN "while" ELSE "call"
    /\ search = NoSearch
    /\ store = NoStore
    /\ page = NoPage
    \* scrape exists in scrape.py only; the store's functions and
    \* extract_links read no field of the fetcher and no credential
    /\ entry = "scrape" => impl = "scrape"
    /\ entry \in {"store", "links"} =>
          /\ impl = "WebScraper"
          /\ cfg = [max_retries |-> 0, initial_retry_delay |-> 0, request_timeout |-> 1,
                    use_retries |-> FALSE, api_key |-> TRUE, cx |-> TRUE]
    /\ url_metadata = [u \in URLS |-> [retries |-> 0, since |-> NoTimestamp]]
    /\ remaining_urls = urls
    /\ failed_urls = <<>>
    /\ todo = {}
    /\ url = 0
    /\ attempt_elapsed = 0
    /\ fetch = NoFetch
    /\ html_content = NoHtml
    /\ disk = <<>>
    /\ raised = "none"
    /\ attempts = [u \in URLS |-> <<>>]
    /\ calls = NoCalls
    /\ sleeps = NoSleeps
    /\ trace = <<>>

(* --------------------------- the scheduler ----------------------------- *)
\* a faulty variant of Eligible: the operands of the subtraction are swapped
Eligible_Swapped(m) ==
    \/ m.since = NoTimestamp
    \/ 2 * (0 - m.since) >= calculate_retry_delay_x2(m.retries, BackoffBase)

\* metadata["last_attempt_timestamp"] is None or
\* (current_time - metadata["last_attempt_timestamp"]) >= retry_delay
Eligible(m) ==
    \/ m.since = NoTimestamp
    \/ 2 * m.since >= calculate_retry_delay_x2(m.retries, BackoffBase)

\* a faulty variant of Exhausted: the cap compared with > instead of >=
Exhausted_Strict(retries) == retries > cfg.max_retries

\* a faulty variant of Exhausted: one cap for the retries of all URLs together
Exhausted_SharedCounter(retries) ==
    LET others == {u \in urls : u # url}
        total == retries + (IF others = {} THEN 0
                            ELSE url_metadata[CHOOSE u \in others : TRUE].retries)
    IN  total >= cfg.max_retries

\* a faulty variant of Exhausted: the URL is given up one failure late
Exhausted_OneLate(retries) == retries >= cfg.max_retries + 1

\* metadata["retries"] >= max_retries
Exhausted(retries) == retries >= cfg.max_retries

\* a faulty variant of IncrementRetries: the failure is not counted
IncrementRetries_Forgotten(retries) == retries

\* a faulty variant of IncrementRetries: one failure is counted twice
IncrementRetries_Twice(retries) == retries + 2

\* metadata["retries"] += 1
IncrementRetries(retries) == retries + 1

\* a faulty variant of ListRemaining: the for loop walks every submitted URL
ListRemaining_AllUrls == urls

\* list(remaining_urls): the URLs one pass of the for loop visits
ListRemaining == remaining_urls

\* a faulty variant of RemainingAfterFailure: the exhausted URL is listed as failed
\* but stays in remaining_urls
RemainingAfterFailure_Kept(retries) == remaining_urls

\* if retries >= max_retries: remaining_urls.remove(url)
RemainingAfterFailure(retries) ==
    IF Exhausted(retries) THEN remaining_urls \ {url} ELSE remaining_urls

\* the arguments fetch_html is called with by the scheduler
SchedulerFetchArgs ==
    IF impl = "WebScraper"
    THEN [use_retries |-> FALSE, max_retries |-> cfg.max_retries,
          initial_retry_delay |-> cfg.initial_retry_delay,
          request_timeout |-> cfg.request_timeout]
    ELSE [use_retries |-> FALSE, max_retries |-> 0, initial_retry_delay |-> 0,
          request_timeout |-> cfg.request_timeout]

StartFetch(args) == [strategy |-> "requests", retries |-> 0, args |-> args]

\* while remaining_urls:  for url in list(remaining_urls):
WhileTest ==
    /\ pc = "while"
    /\ IF remaining_urls = {}
       THEN pc' = "done" /\ todo' = todo
       ELSE pc' = "for" /\ todo' = ListRemaining
    /\ UNCHANGED <<impl, entry, cfg, page, store, urls, url_metadata, remaining_urls, failed_urls,
                   url, attempt_elapsed, fetch, html_content, disk, raised, histVars>>

\* the for loop is exhausted: time.sleep(0.1), back to the while test
TickSleep ==
    /\ pc = "for"
    /\ todo = {}
    /\ Elapse(TickPause)
    /\ pc' = "while"
    /\ UNCHANGED <<impl, entry, cfg, page, store, urls, remaining_urls, failed_urls, todo, url,
                   fetch, html_content, disk, raised, histVars>>

\* one iteration whose URL is not yet due
SkipUrl ==
    /\ pc = "for"
    /\ \E u \in todo :
          /\ ~Eligible(url_metadata[u])
          /\ todo' = todo \ {u}
    /\ UNCHANGED <<impl, entry, cfg, page, store, pc, urls, url_metadata, remaining_urls,
                   failed_urls, url, attempt_elapsed, fetch, html_content, disk,
                   raised, histVars>>

\* one iteration whose URL is due: current_time is sampled and fetch_html called
IssueFetch ==
    /\ pc = "for"
    /\ \E u \in todo :
          /\ Eligible(url_metadata[u])
          /\ todo' = todo \ {u}
          /\ url' = u
    /\ attempt_elapsed' = 0
    /\ fetch' = StartFetch(SchedulerFetchArgs)
    /\ calls' = NoCalls
    /\ sleeps' = NoSleeps
    /\ trace' = <<>>
    /\ pc' = "fetching"
    /\ UNCHANGED <<impl, entry, cfg, page, store, urls, url_metadata, remaining_urls, failed_urls,
                   html_content, disk, raised, attempts, search>>

(* ------------------------- the content fetcher ------------------------- *)
\* the arguments of a direct fetch_html call
DirectFetchArgs ==
    [use_retries |-> cfg.use_retries, max_retries |-> cfg.max_retries,
     initial_retry_delay |-> cfg.initial_retry_delay,
     request_timeout |-> cfg.request_timeout]

\* fetch_html is entered
CallFetchHtml ==
    /\ pc = "call"
    /\ entry \in {"fetch", "scrape"}
    /\ fetch' = StartFetch(DirectFetchArgs)
    /\ pc' = "fetching"
    /\ UNCHANGED <<impl, entry, cfg, page, store, urls, schedVars, attempt_elapsed, html_content,
                   disk, raised, histVars>>

\* the timeout requests.get is given.  HtmlFetcher passes self.request_timeout.
\* In scrape.py fetch_with_retry calls fetch_func(url, request_timeout), which
\* binds the caller's timeout to the strategy's second parameter, max_retries,
\* and leaves the strategy's own request_timeout at its default.
RequestsTimeout(args) ==
    IF impl = "WebScraper" THEN args.request_timeout ELSE StrategyRequestTimeout

\* the timeout driver.get is given: none in either implementation
SeleniumTimeout(args) == NoTimeout

\* a faulty variant of RetryLoop: one invocation more than the budget
RetryLoop_OneMore(args) ==
    [loops |-> args.use_retries, limit |-> args.max_retries + 1,
     base |-> args.initial_retry_delay]

\* the retry loop a strategy invocation runs in:
\*   HtmlFetcher  fetch_with_retry (use_retries) or fetch_without_retry;
\*   scrape.py    the strategy's own while loop, whose max_retries is the value
\*                fetch_with_retry passed second (request_timeout) and whose
\*                initial_retry_delay is its default; it catches every
\*                exception, so the enclosing fetch_with_retry loop returns
\*                on its first iteration.
RetryLoop(args) ==
    IF impl = "WebScraper"
    THEN [loops |-> args.use_retries, limit |-> args.max_retries,
          base |-> args.initial_retry_delay]
    ELSE [loops |-> TRUE, limit |-> args.request_timeout,
          base |-> StrategyInitialRetryDelay]

\* a faulty variant of fetch_without_retry_except: the exception is not caught
fetch_without_retry_except_Propagates == "propagate"

\* what fetch_without_retry does with an exception of the strategy:
\* except Exception: log a warning, return None
fetch_without_retry_except == "return_none"

\* a faulty variant of NeedsFallback: flagged content is accepted
NeedsFallback_OnlyAbsent(h) == ~h.present

\* a faulty variant of NeedsFallback: the browser is always tried
NeedsFallback_Always(h) == TRUE

\* html_content is None or self.check_html_incomplete_load(html_content)
NeedsFallback(h) == ~h.present \/ check_html_incomplete_load(h.text)

\* what one network call can do: answer with a body, fail with a transport
\* error, or never answer; an unanswered call raises when its timeout expires
\* and never returns when it was given none
NetOutcomes(timeout, bodies) ==
    LET durs == 0..(IF timeout = NoTimeout THEN MaxFetchDur
                    ELSE Min(MaxFetchDur, timeout)) IN
    {[kind |-> "body", text |-> b, dur |-> d] : b \in bodies, d \in durs}
    \cup {[kind |-> "raise", text |-> <<>>, dur |-> d] : d \in durs}
    \cup {IF timeout = NoTimeout
          THEN [kind |-> "hang", text |-> <<>>, dur |-> 0]
          ELSE [kind |-> "raise", text |-> <<>>, dur |-> timeout]}

\* the fetch method of the current strategy returns h after d clock units:
\* fetch_html falls back to selenium or returns
StrategyReturns(h, d) ==
    /\ Elapse(d)
    /\ raised' = raised
    /\ IF fetch.strategy = "requests" /\ NeedsFallback(h)
       THEN /\ fetch' = [fetch EXCEPT !.strategy = "selenium", !.retries = 0]
            /\ UNCHANGED <<pc, html_content, attempts>>
       ELSE /\ fetch' = NoFetch
            /\ html_content' = h
            /\ pc' = CASE entry = "run" -> "fetched"
                        [] entry = "scrape" -> "process"
                        [] OTHER -> "done"
            /\ attempts' =
                  IF entry = "run"
                  THEN [attempts EXCEPT ![url] =
                           Append(@, IF h.present THEN "ok" ELSE "fail")]
                  ELSE attempts

\* an entry of trace: strategy s was invoked and answered ("body"), raised
\* ("raise") or never answered ("hang"), or the fetch method called with s
\* returned html to fetch_html ("return")
Ev(s, kind, html) == [strategy |-> s, kind |-> kind, html |-> html]

\* a faulty variant of fetch_with_retry_return: an empty body instead of None
fetch_with_retry_return_Empty == Html(<<>>)

\* what fetch_with_retry returns once its loop is exhausted: return None
fetch_with_retry_return == NoHtml

\* one invocation of strategy s inside its fetch method
Invoke(s, timeout, bodies) ==
    /\ pc = "fetching"
    /\ fetch.strategy = s
    /\ calls' = [calls EXCEPT ![s] = @ + 1]
    /\ \E o \in NetOutcomes(timeout, bodies) :
          LET loop == RetryLoop(fetch.args)
              retries == fetch.retries + 1
              retry_delay == calculate_retry_delay(retries, loop.base)
          IN
          CASE o.kind = "hang" ->
                 /\ pc' = "hung"
                 /\ trace' = Append(trace, Ev(s, "hang", NoHtml))
                 /\ UNCHANGED <<url_metadata, attempt_elapsed, fetch, html_content,
                                raised, attempts, sleeps>>
            [] o.kind = "body" ->
                 /\ StrategyReturns(Html(o.text), o.dur)
                 /\ trace' = trace \o <<Ev(s, "body", Html(o.text)),
                                        Ev(s, "return", Html(o.text))>>
                 /\ sleeps' = sleeps
            [] o.kind = "raise" /\ ~loop.loops ->
                 IF fetch_without_retry_except = "return_none"
                 THEN /\ StrategyReturns(NoHtml, o.dur)
                      /\ trace' = trace \o <<Ev(s, "raise", NoHtml),
                                             Ev(s, "return", NoHtml)>>
                      /\ sleeps' = sleeps
                 ELSE /\ pc' = "raised"
                      /\ raised' = "fetch"
                      /\ trace' = Append(trace, Ev(s, "raise", NoHtml))
                      /\ UNCHANGED <<url_metadata, attempt_elapsed, fetch,
                                     html_content, attempts, sleeps>>
            [] o.kind = "raise" /\ loop.loops /\ retries <= loop.limit ->
                 /\ Elapse(o.dur + retry_delay)
                 /\ sleeps' = [sleeps EXCEPT ![s] = Append(@, retry_delay)]
                 /\ trace' = Append(trace, Ev(s, "raise", NoHtml))
                 /\ fetch' = [fetch EXCEPT !.retries = retries]
                 /\ UNCHANGED <<pc, html_content, raised, attempts>>
            [] o.kind = "raise" /\ loop.loops /\ retries > loop.limit ->
                 /\ StrategyReturns(fetch_with_retry_return, o.dur)
                 /\ trace' = trace \o <<Ev(s, "raise", NoHtml),
                                        Ev(s, "return", fetch_with_retry_return)>>
                 /\ sleeps' = sleeps
    /\ UNCHANGED <<impl, entry, cfg, page, store, urls, remaining_urls, failed_urls, todo, url,
                   disk, search>>

FetchHtmlRequests == Invoke("requests", RequestsTimeout(fetch.args), HttpBodies)

FetchHtmlSelenium == Invoke("selenium", SeleniumTimeout(fetch.args), BrowserBodies)

\* a faulty variant of SaveErrorLeaves: the error is swallowed, the loop goes on
SaveErrorLeaves_Swallowed == "for"

\* where control goes when save_html_to_disk raises inside the loop: no try
\* statement encloses the call, so the exception leaves the function
SaveErrorLeaves == "raised"

(* ------------------------ persisting a result -------------------------- *)
\* save_html_to_disk, first file: <hash>.html receives raw_html; open() may raise
SaveHtmlFile ==
    /\ pc = "fetched"
    /\ html_content.present
    /\ \/ /\ disk' = WriteFile(disk, FileName(generate_hash(url), "html"),
                               [text |-> html_content.text])
          /\ pc' = "save_json"
          /\ raised' = raised
       \/ /\ pc' = SaveErrorLeaves
          /\ raised' = "store"
          /\ disk' = disk
    /\ UNCHANGED <<impl, entry, cfg, page, store, urls, schedVars, attempt_elapsed, fetch,
                   html_content, histVars>>

\* save_html_to_disk, second file: <hash>.json receives {url, file_name};
\* then remaining_urls.remove(url)
SaveJsonFile ==
    /\ pc = "save_json"
    /\ \/ /\ disk' = WriteFile(disk, FileName(generate_hash(url), "json"),
                               [url |-> url,
                                file_name |-> FileName(generate_hash(url), "html")])
          /\ remaining_urls' = remaining_urls \ {url}
          /\ pc' = "for"
          /\ url' = 0
          /\ attempt_elapsed' = 0
          /\ raised' = raised
       \/ /\ pc' = SaveErrorLeaves
          /\ raised' = "store"
          /\ UNCHANGED <<disk, remaining_urls, url, attempt_elapsed>>
    /\ UNCHANGED <<impl, entry, cfg, page, store, urls, url_metadata, failed_urls, todo, fetch,
                   html_content, histVars>>

\* raw_html is None: count the failure, stamp the attempt, give up at the cap
RecordFailure ==
    /\ pc = "fetched"
    /\ ~html_content.present
    /\ LET retries == IncrementRetries(url_metadata[url].retries) IN
       /\ url_metadata' = [url_metadata EXCEPT ![url] =
             [retries |-> retries,
              since |-> Min(attempt_elapsed, AgeCap(retries))]]
       /\ failed_urls' =
             IF Exhausted(retries) THEN Append(failed_urls, url) ELSE failed_urls
       /\ remaining_urls' = RemainingAfterFailure(retries)
    /\ pc' = "for"
    /\ url' = 0
    /\ attempt_elapsed' = 0
    /\ UNCHANGED <<impl, entry, cfg, page, store, urls, todo, fetch, html_content, disk, raised,
                   histVars>>

(* -------------------------- the search client ------------------------- *)
\* what the API can answer: a JSON object with or without "items"
SearchResponses ==
    {[has_items |-> FALSE, items |-> <<>>],
     [has_items |-> TRUE, items |-> <<"a">>],
     [has_items |-> TRUE, items |-> <<"a", "b">>]}

\* [{..., "link": item["link"], "rank": index + 1} for index, item in enumerate(items)]
RankedResults(items) == [i \in 1..Len(items) |-> [link |-> items[i], rank |-> i]]

\* the timeout requests.get(url, params=params) is given
SearchTimeout == NoTimeout

\* a faulty variant of CredentialsMissing: only the API key is looked at
CredentialsMissing_KeyOnly == ~cfg.api_key

\* CONFIG_SEARCH['api_key'] is None, or CONFIG_SEARCH['cx'] is None
CredentialsMissing == ~cfg.api_key \/ ~cfg.cx

\* the credential checks, then retries = 0, retry_delay = CONFIG['retry_delay']
SearchStart ==
    /\ pc = "call"
    /\ entry = "search"
    /\ IF CredentialsMissing
       THEN /\ pc' = "raised"
            /\ raised' = "config"
            /\ search' = search
       ELSE /\ pc' = "search_loop"
            /\ raised' = raised
            /\ search' = [NoSearch EXCEPT !.retries = 0,
                                          !.retry_delay = cfg.initial_retry_delay]
    /\ UNCHANGED <<impl, entry, cfg, page, store, urls, schedVars, attempt_elapsed, fetch,
                   html_content, disk, attempts, calls, sleeps, trace>>

\* a faulty variant of SearchLoopTest: the test of the fetcher's retry loop
SearchLoopTest_Inclusive(retries) == retries <= cfg.max_retries

\* while retries < CONFIG['max_retries']
SearchLoopTest(retries) == retries < cfg.max_retries

\* the loop test is false: return results
SearchReturn ==
    /\ pc = "search_loop"
    /\ ~SearchLoopTest(search.retries)
    /\ pc' = "done"
    /\ UNCHANGED <<impl, entry, cfg, page, store, urls, schedVars, attempt_elapsed, fetch,
                   html_content, disk, raised, histVars>>

\* a faulty variant of NextRetryDelay: the delay is not doubled
NextRetryDelay_Constant(retry_delay) == retry_delay

\* retry_delay *= 2
NextRetryDelay(retry_delay) == retry_delay * 2

\* one iteration of the while loop: the request, then break or sleep and double
SearchRequest ==
    /\ pc = "search_loop"
    /\ SearchLoopTest(search.retries)
    /\ \E o \in NetOutcomes(SearchTimeout, SearchResponses) :
          CASE o.kind = "hang" ->
                 /\ pc' = "hung"
                 /\ search' = [search EXCEPT !.requests = @ + 1]
            [] o.kind = "body" ->
                 /\ pc' = "done"
                 /\ search' = [search EXCEPT
                       !.requests = @ + 1,
                       !.response = o.text,
                       !.results = IF o.text.has_items
                                   THEN RankedResults(o.text.items) ELSE @]
            [] o.kind = "raise" ->
                 /\ pc' = pc
                 /\ search' = [search EXCEPT
                       !.requests = @ + 1,
                       !.retries = @ + 1,
                       !.slept = Append(@, search.retry_delay),
                       !.retry_delay = NextRetryDelay(@)]
    /\ UNCHANGED <<impl, entry, cfg, page, store, urls, schedVars, attempt_elapsed, fetch,
                   html_content, disk, raised, attempts, calls, sleeps, trace>>

(* ----------------- the store's functions, called directly -------------- *)
\* A str is a sequence of characters.  The characters the conversions treat
\* specially carry names: "CR" and "LF" (carriage return, line feed), "QUOTE",
\* "BACKSLASH", and the non-ASCII letter "é"; every other character is ASCII.
StoreUrls == {<<"u">>, <<"u", "é", "QUOTE">>}
StoreContents == {<<>>, <<"é", "LF">>, <<"a", "CR", "LF">>}

\* os.linesep of the platform the store runs on (POSIX)
os_linesep == <<"LF">>

\* open(path, 'w', encoding='utf-8') leaves newline at None: f.write turns
\* every "\n" into os.linesep
RECURSIVE TranslateOnWrite(_)
TranslateOnWrite(str) ==
    IF str = <<>> THEN <<>>
    ELSE (IF Head(str) = "LF" THEN os_linesep ELSE <<Head(str)>>)
         \o TranslateOnWrite(Tail(str))

\* open(path, 'r', encoding='utf-8') leaves newline at None (universal
\* newlines): f.read turns "\r\n" and a lone "\r" into "\n"
RECURSIVE TranslateOnRead(_)
TranslateOnRead(str) ==
    IF str = <<>> THEN <<>>
    ELSE IF Head(str) = "CR"
         THEN <<"LF">> \o TranslateOnRead(IF Len(str) >= 2 /\ str[2] = "LF"
                                          THEN Tail(Tail(str)) ELSE Tail(str))
         ELSE <<Head(str)>> \o TranslateOnRead(Tail(str))

\* the UTF-8 bytes of a character: two for "é", the character itself for ASCII
Utf8(c) == IF c = "é" THEN <<"c3", "a9">> ELSE <<c>>

RECURSIVE Utf8Encode(_)
Utf8Encode(str) ==
    IF str = <<>> THEN <<>> ELSE Utf8(Head(str)) \o Utf8Encode(Tail(str))

RECURSIVE Utf8Decode(_)
Utf8Decode(bytes) ==
    IF bytes = <<>> THEN <<>>
    ELSE IF Head(bytes) = "c3" /\ Len(bytes) >= 2 /\ bytes[2] = "a9"
         THEN <<"é">> \o Utf8Decode(Tail(Tail(bytes)))
         ELSE <<Head(bytes)>> \o Utf8Decode(Tail(bytes))

\* the bytes f.write(str) leaves in a text file, and the str f.read() gives back
TextWrite(str) == Utf8Encode(TranslateOnWrite(str))
TextRead(bytes) == TranslateOnRead(Utf8Decode(bytes))

\* json.dump of a str value (ensure_ascii): escapes instead of raw characters
JsonEscapeChar(c) ==
    CASE c = "é" -> <<"BACKSLASH", "u00e9">>
      [] c = "LF" -> <<"BACKSLASH", "n">>
      [] c = "CR" -> <<"BACKSLASH", "r">>
      [] c = "QUOTE" -> <<"BACKSLASH", "QUOTE">>
      [] c = "BACKSLASH" -> <<"BACKSLASH", "BACKSLASH">>
      [] OTHER -> <<c>>

RECURSIVE JsonEscape(_)
JsonEscape(str) ==
    IF str = <<>> THEN <<>> ELSE JsonEscapeChar(Head(str)) \o JsonEscape(Tail(str))

\* json.load of a str value
JsonUnescapeChar(c) ==
    CASE c = "u00e9" -> "é"
      [] c = "n" -> "LF"
      [] c = "r" -> "CR"
      [] OTHER -> c

RECURSIVE JsonUnescape(_)
JsonUnescape(txt) ==
    IF txt = <<>> THEN <<>>
    ELSE IF Head(txt) = "BACKSLASH" /\ Len(txt) >= 2
         THEN <<JsonUnescapeChar(txt[2])>> \o JsonUnescape(Tail(Tail(txt)))
         ELSE <<Head(txt)>> \o JsonUnescape(Tail(txt))

\* the metadata file json.dump(metadata, f) leaves: a JSON object whose
\* members hold the written form of their values
JsonDump(metadata) ==
    [syntax |-> "object",
     members |-> [url |-> TextWrite(JsonEscape(metadata.url)),
                  file_name |-> metadata.file_name]]

\* what a damaged metadata file can hold: no JSON at all, or an object
\* without the "url" member
InvalidJson == [syntax |-> "invalid", members |-> <<>>]
JsonWithoutUrl(file_name) ==
    [syntax |-> "object", members |-> [file_name |-> file_name]]

RemoveFile(d, name) == [f \in DOMAIN d \ {name} |-> d[f]]

\* a faulty variant of save_html_file: both files appear in one step
save_html_file_WithMetadata(d, u, raw_html) ==
    WriteFile(WriteFile(d, FileName(generate_hash(u), "html"), TextWrite(raw_html)),
              FileName(generate_hash(u), "json"),
              JsonDump([url |-> u, file_name |-> FileName(generate_hash(u), "html")]))

\* save_html_to_disk up to and including the content file
save_html_file(d, u, raw_html) ==
    WriteFile(d, FileName(generate_hash(u), "html"), TextWrite(raw_html))

\* save_html_to_disk, complete: the content file, then the metadata file
save_html_to_disk(d, u, raw_html) ==
    LET file_name == FileName(generate_hash(u), "html")
        metadata == [url |-> u, file_name |-> file_name]
    IN  WriteFile(save_html_file(d, u, raw_html),
                  FileName(generate_hash(u), "json"), JsonDump(metadata))

\* for file in files: if file.endswith('.html')
ContentFiles(d) == {f \in DOMAIN d : f.ext = "html"}

\* file.replace('.html', '.json'), for a file named <hex digest>.html
MetadataPath(file) == FileName(file.stem, "json")

\* open(metadata_path), json.load(f) and metadata["url"] all succeed
MetadataReadable(d, file) ==
    /\ MetadataPath(file) \in DOMAIN d
    /\ d[MetadataPath(file)].syntax = "object"
    /\ "url" \in DOMAIN d[MetadataPath(file)].members

\* {"url": metadata["url"], "raw_html": raw_html}
LoadEntry(d, file) ==
    [url |-> JsonUnescape(TextRead(d[MetadataPath(file)].members.url)),
     raw_html |-> TextRead(d[file])]

\* the orders os.walk can list the files of S in
Orders(S) ==
    {o \in [1..Cardinality(S) -> S] :
        \A i, j \in 1..Cardinality(S) : i # j => o[i] # o[j]}

\* a faulty variant of unreadable_metadata: the content file is passed over
unreadable_metadata_Skipped == "skip"

\* what load_html_from_disk does when a content file's metadata cannot be
\* read: the exception of open / json.load / metadata["url"] is not caught
unreadable_metadata == "raise"

\* load_html_from_disk, the files listed in the order given
load_html_from_disk(d, order) ==
    IF unreadable_metadata = "raise"
       /\ \E f \in ContentFiles(d) : ~MetadataReadable(d, f)
    THEN [kind |-> "raised", list |-> <<>>]
    ELSE [kind |-> "list", list |-> [i \in DOMAIN order |-> LoadEntry(d, order[i])]]

Op(op, u, content, done) == [op |-> op, url |-> u, content |-> content, done |-> done]

\* one call of save_html_to_disk: it completes, or the second open() raises
\* and leaves the content file without its metadata file
StoreWrite ==
    /\ entry = "store"
    /\ pc = "call"
    /\ Len(store.ops) < MaxStoreOps
    /\ \E u \in StoreUrls, content \in StoreContents, done \in {"ok", "html_only"} :
          store' = [dir |-> IF done = "ok"
                            THEN save_html_to_disk(store.dir, u, content)
                            ELSE save_html_file(store.dir, u, content),
                    ops |-> Append(store.ops, Op("write", u, content, done)),
                    loaded |-> NoResult]
    /\ UNCHANGED <<impl, entry, cfg, page, pc, urls, schedVars, attempt_elapsed, fetch,
                   html_content, disk, raised, attempts, calls, sleeps, trace, search>>

\* something outside the store removes or rewrites a metadata file
StoreDamage ==
    /\ entry = "store"
    /\ pc = "call"
    /\ Len(store.ops) < MaxStoreOps
    /\ \E f \in ContentFiles(store.dir), how \in {"removed", "invalid", "no_url"} :
          /\ MetadataPath(f) \in DOMAIN store.dir
          /\ store' = [dir |-> CASE how = "removed" ->
                                      RemoveFile(store.dir, MetadataPath(f))
                                 [] how = "invalid" ->
                                      WriteFile(store.dir, MetadataPath(f), InvalidJson)
                                 [] how = "no_url" ->
                                      WriteFile(store.dir, MetadataPath(f),
                                                JsonWithoutUrl(f)),
                       ops |-> Append(store.ops, Op("damage", <<>>, <<>>, how)),
                       loaded |-> NoResult]
    /\ UNCHANGED <<impl, entry, cfg, page, pc, urls, schedVars, attempt_elapsed, fetch,
                   html_content, disk, raised, attempts, calls, sleeps, trace, search>>

\* one call of load_html_from_disk
StoreLoad ==
    /\ entry = "store"
    /\ pc = "call"
    /\ Len(store.ops) < MaxStoreOps
    /\ \E order \in Orders({f \in ContentFiles(store.dir) :
                              unreadable_metadata = "raise"
                              \/ MetadataReadable(store.dir, f)}) :
          store' = [dir |-> store.dir,
                    ops |-> Append(store.ops, Op("load", <<>>, <<>>, "")),
                    loaded |-> load_html_from_disk(store.dir, order)]
    /\ UNCHANGED <<impl, entry, cfg, page, pc, urls, schedVars, attempt_elapsed, fetch,
                   html_content, disk, raised, attempts, calls, sleeps, trace, search>>

(* ------------------------ the HTML transformer ------------------------- *)
\* A parsed document, as far as extract_links reads it: its elements in
\* document order, each with its tag and, if it has one, its href attribute.
Elements ==
    {[tag |-> "a", has_href |-> TRUE, href |-> "/x"],
     [tag |-> "a", has_href |-> TRUE, href |-> "/y"],
     [tag |-> "a", has_href |-> FALSE, href |-> ""],
     [tag |-> "p", has_href |-> FALSE, href |-> ""]}

Doc(elems) == [present |-> TRUE, elems |-> elems]

Documents ==
    {NoDoc} \cup {Doc(e) : e \in UNION {[1..n -> Elements] : n \in 0..MaxDocLen}}

\* a faulty variant of AnchorWithHref: every anchor is taken
AnchorWithHref_AnyAnchor(e) == e.tag = "a"

\* soup.find_all('a', href=True)
AnchorWithHref(e) == e.tag = "a" /\ e.has_href

RECURSIVE HrefsOf(_)
HrefsOf(elems) ==
    IF elems = <<>> THEN <<>>
    ELSE (IF AnchorWithHref(Head(elems)) THEN <<Head(elems).href>> ELSE <<>>)
         \o HrefsOf(Tail(elems))

\* if html is None: return []; else [a['href'] for a in soup.find_all('a', href=True)]
extract_links(html) == IF ~html.present THEN <<>> ELSE HrefsOf(html.elems)

\* extract_links is called with some document, or with None
ExtractLinks ==
    /\ entry = "links"
    /\ pc = "call"
    /\ \E html \in Documents :
          page' = [page EXCEPT !.doc = html, !.href_links = extract_links(html),
                               !.returned = TRUE]
    /\ pc' = "done"
    /\ UNCHANGED <<impl, entry, cfg, urls, schedVars, attempt_elapsed, fetch,
                   html_content, disk, raised, histVars, store>>

\* what html2text can hand back for a page: some str; the lengths matter
MarkdownTexts == {<<>>, <<"LF", "LF">>, <<"t", "e", "x", "t", "LF", "LF">>}

\* process_html: None for None, else the markdown text of the converter
process_html(html, markdown_text) ==
    IF ~html.present THEN NoHtml ELSE Html(markdown_text)

\* scrape after fetch_html returned:
\*   text, href_links = process_html(raw_html, ...);  return text, href_links
\* The assignment unpacks the ONE value process_html returns: None is not
\* iterable (TypeError), a str unpacks only if it has exactly two characters
\* (ValueError otherwise).
ScrapeProcess ==
    /\ entry = "scrape"
    /\ pc = "process"
    /\ \E markdown_text \in MarkdownTexts :
          LET out == process_html(html_content, markdown_text) IN
          CASE ~out.present ->
                 /\ pc' = "raised" /\ raised' = "TypeError" /\ page' = page
            [] out.present /\ Len(out.text) # 2 ->
                 /\ pc' = "raised" /\ raised' = "ValueError" /\ page' = page
            [] out.present /\ Len(out.text) = 2 ->
                 /\ pc' = "done" /\ raised' = raised
                 /\ page' = [page EXCEPT !.text = Html(<<out.text[1]>>),
                                         !.href_links = <<out.text[2]>>,
                                         !.returned = TRUE]
    /\ UNCHANGED <<impl, entry, cfg, urls, schedVars, attempt_elapsed, fetch,
                   html_content, disk, histVars, store>>

(* ------------------------------ behaviours ----------------------------- *)
Next ==
    \/ WhileTest
    \/ TickSleep
    \/ SkipUrl
    \/ IssueFetch
    \/ CallFetchHtml
    \/ FetchHtmlRequests
    \/ FetchHtmlSelenium
    \/ SaveHtmlFile
    \/ SaveJsonFile
    \/ RecordFailure
    \/ SearchStart
    \/ SearchReturn
    \/ SearchRequest
    \/ StoreWrite
    \/ StoreDamage
    \/ StoreLoad
    \/ ExtractLinks
    \/ ScrapeProcess

Spec == Init /\ [][Next]_vars


(* ------------------------------ fairness ------------------------------- *)
\* the steps of run alone
RunNext ==
    \/ WhileTest
    \/ TickSleep
    \/ SkipUrl
    \/ IssueFetch
    \/ FetchHtmlRequests
    \/ FetchHtmlSelenium
    \/ SaveHtmlFile
    \/ SaveJsonFile
    \/ RecordFailure

\* run executed by a thread that keeps running: it takes its next step
\* whenever it has one
LiveInit == Init /\ entry = "run"

LiveSpec == LiveInit /\ [][RunNext]_vars /\ WF_vars(RunNext)

(* ------------------------- vocabulary of the claims -------------------- *)
InFailed(u) == \E i \in 1..Len(failed_urls) : failed_urls[i] = u

HtmlFileOf(u) == FileName(generate_hash(u), "html")
JsonFileOf(u) == FileName(generate_hash(u), "json")

\* some file of u was written during this run
Written(u) == HtmlFileOf(u) \in DOMAIN disk \/ JsonFileOf(u) \in DOMAIN disk

\* u's document is in the store: content file and metadata sibling naming u
Stored(u) ==
    /\ HtmlFileOf(u) \in DOMAIN disk
    /\ JsonFileOf(u) \in DOMAIN disk
    /\ disk[JsonFileOf(u)].url = u

\* u has left Pending
Terminal(u) == u \in urls /\ u \notin remaining_urls

\* the number of failed fetch calls issued for u
Fails(u) == Cardinality({i \in 1..Len(attempts[u]) : attempts[u][i] = "fail"})

\* n failed fetch calls followed by one successful one
FailsThenOk(n) == [i \in 1..(n + 1) |-> IF i <= n THEN "fail" ELSE "ok"]

\* the outcome of u's last fetch call has been acted on by the scheduler
Handled(u) == ~(url = u /\ pc \in {"fetched", "save_json"})

(* ------------------------------- claims -------------------------------- *)

\* C1: when run returns, every submitted URL is either in the returned failure
\* list and was never written to the store during the run, or is stored and is
\* not in the failure list; never both and never neither.
C1_ExactlyOneOutcome ==
    (entry = "run" /\ pc = "done") =>
        \A u \in urls :
            \/ InFailed(u) /\ ~Written(u)
            \/ ~InFailed(u) /\ Stored(u)

\* C1 witness: a run that returned with one URL failed after two failed
\* attempts and the other stored.
C1_Witness ==
    /\ entry = "run" /\ pc = "done" /\ urls = 1..2
    /\ \E u, v \in urls :
          /\ InFailed(u) /\ ~Written(u) /\ Len(attempts[u]) = 2
          /\ Stored(v) /\ ~InFailed(v)

\* C2: a URL whose fetch has failed maxRetries times in a row (at least once)
\* is in the failure list and out of Pending as soon as the scheduler has
\* counted the failure, it stays there, and no fetch is issued for it afterwards.
C2_ExhaustedIsFailedForGood ==
    [][\A u \in URLS :
          /\ (Fails(u)' >= Max(1, cfg.max_retries) /\ Handled(u)')
                => (InFailed(u)' /\ u \notin remaining_urls')
          /\ InFailed(u)
                => (InFailed(u)' /\ attempts'[u] = attempts[u] /\ url' # u)]_vars

\* C2 witness: a URL that failed three times with maxRetries = 3, listed as
\* failed, while the run goes on fetching the other URL.
C2_Witness ==
    /\ entry = "run" /\ cfg.max_retries = 3
    /\ \E u \in urls :
          /\ Fails(u) = 3 /\ InFailed(u)
          /\ pc = "fetching" /\ url # u

\* C3: a URL whose fetch fails exactly maxRetries - 1 times and then succeeds
\* ends stored, not in the failure list, with retries = maxRetries - 1.
C3_LastChanceSuccess ==
    \A u \in urls :
        (cfg.max_retries >= 1 /\ attempts[u] = FailsThenOk(cfg.max_retries - 1)
            /\ Terminal(u))
        => /\ Stored(u)
           /\ ~InFailed(u)
           /\ url_metadata[u].retries = cfg.max_retries - 1

\* C3 witness: run returned after a URL failed twice and succeeded on its
\* third and last permitted attempt.
C3_Witness ==
    /\ entry = "run" /\ pc = "done" /\ cfg.max_retries = 3
    /\ \E u \in urls : attempts[u] = <<"fail", "fail", "ok">>

\* C4: once a URL is Succeeded or Failed it stays out of Pending, keeps its
\* terminal state, is not fetched again, and its retries no longer change.
C4_TerminalIsAbsorbing ==
    [][\A u \in URLS :
          Terminal(u) =>
             /\ Terminal(u)'
             /\ InFailed(u)' = InFailed(u)
             /\ url' # u
             /\ attempts'[u] = attempts[u]
             /\ url_metadata'[u].retries = url_metadata[u].retries]_vars

\* C4 witness: one URL is Succeeded, and a later pass of the loop is fetching
\* the other one, which has already failed once.
C4_Witness ==
    /\ entry = "run" /\ pc = "fetching"
    /\ \E u \in urls :
          /\ Terminal(u) /\ ~InFailed(u) /\ Stored(u)
          /\ url # u /\ url # 0 /\ url_metadata[url].retries >= 1

\* C5: a fetch is issued for a Pending URL only if its last attempt time is
\* unset or the time since its last attempt is at least
\* initialDelay * 2^(retries - 1), initialDelay being the initial delay this
\* run was configured with.  (Stated on the state right after the fetch is
\* issued, before any time has passed in it.)
C5_GateUsesConfiguredDelay ==
    (entry = "run" /\ pc = "fetching" /\ calls = NoCalls) =>
        LET m == url_metadata[url] IN
        \/ m.since = NoTimestamp
        \/ 2 * m.since >= cfg.initial_retry_delay * Pow2(m.retries)

\* C6: inside one fetch call issued by the scheduler each strategy is invoked
\* at most once and no backoff sleep happens.
C6_SingleAttemptPerIssuedFetch ==
    entry = "run" =>
        /\ calls.requests <= 1
        /\ calls.selenium <= 1
        /\ sleeps = NoSleeps

\* C7: the delay before the n-th retry is initialDelay * 2^(n-1), initialDelay
\* being the initial delay the caller configured, and it grows strictly with n
\* (for a positive initialDelay; with initialDelay = 0 every delay is 0), in
\* the fetcher's retry loop (the sleeps of a direct fetch call) and in the
\* scheduler's backoff (the delay a Pending URL with n retries waits for).
C7_DelayIsInitialTimesPowerOfTwo ==
    /\ entry = "fetch" =>
          \A s \in {"requests", "selenium"} :
             \A n \in 1..Len(sleeps[s]) :
                /\ sleeps[s][n] = cfg.initial_retry_delay * Pow2(n - 1)
                /\ (n > 1 /\ cfg.initial_retry_delay > 0)
                      => sleeps[s][n] > sleeps[s][n - 1]
    /\ entry = "run" =>
          \A u \in remaining_urls :
             LET n == url_metadata[u].retries IN
             n >= 1 =>
                /\ calculate_retry_delay(n, BackoffBase)
                      = cfg.initial_retry_delay * Pow2(n - 1)
                /\ cfg.initial_retry_delay > 0
                      => calculate_retry_delay(n + 1, BackoffBase)
                            > calculate_retry_delay(n, BackoffBase)

AllFail(n) == [i \in 1..n |-> "fail"]

\* C8: no exception leaves run because a fetch strategy raised (run is only
\* ever left by an error of the store), and when run returns every submitted
\* URL is Failed or Succeeded according to its own fetch outcomes: Failed iff
\* all of its max(1, maxRetries) fetch calls failed, stored iff its last fetch
\* call succeeded.
C8_FetchErrorsNeverAbortRun ==
    entry = "run" =>
        /\ raised # "fetch"
        /\ pc = "raised" => raised = "store"
        /\ pc = "done" =>
              \A u \in urls :
                 /\ Terminal(u)
                 /\ InFailed(u) <=> attempts[u] = AllFail(Max(1, cfg.max_retries))
                 /\ Stored(u) <=>
                       (attempts[u] # <<>> /\ attempts[u][Len(attempts[u])] = "ok")

\* C8 witness: run returned; URL 1 failed permanently, every one of its fetch
\* calls ending in an exception of the strategies, and URL 2 was still
\* stored, after a failed attempt of its own.
C8_Witness ==
    /\ entry = "run" /\ pc = "done" /\ urls = 1..2 /\ cfg.max_retries >= 2
    /\ InFailed(1) /\ Fails(1) = cfg.max_retries
    /\ Stored(2) /\ Fails(2) >= 1

\* C9 as claimed: if every fetch call returns, Pending eventually becomes
\* empty and run returns.
C9_RunReturns == <>(pc = "done" \/ pc = "hung")

\* C9 as amended: if every fetch call returns, run eventually ends: Pending
\* becomes empty and run returns, or an error of a store write leaves run.
C9_RunEnds == <>(pc = "done" \/ pc = "hung" \/ (pc = "raised" /\ raised = "store"))

\* C9 witness: run returned although one URL used up three attempts, with
\* the largest initial delay to wait for between them.
C9_Witness ==
    /\ entry = "run" /\ pc = "done" /\ urls = 1..2
    /\ cfg.max_retries = 3 /\ cfg.initial_retry_delay = MaxInitialDelay
    /\ \E u \in urls : InFailed(u) /\ Fails(u) = 3

\* C10: no network call of the pipeline (HTTP fetch, browser fetch, search
\* request) suspends forever; each is bounded by the request timeout.
C10_NoCallSuspendsForever == pc # "hung"

\* the scheduler is about to act on a failed fetch call of u
FailedAttemptOf(u) == pc = "fetched" /\ url = u /\ ~html_content.present

\* C11: per URL, retries starts at 0 with no attempt time; each failed
\* scheduler attempt adds exactly 1 to it and stamps the attempt time; every
\* other step (a successful attempt, a tick on which the URL is not due, a
\* step about another URL) leaves it unchanged.  So it never decreases.
C11_RetryCountSteps ==
    /\ \A u \in URLS :
          url_metadata[u].retries = 0 /\ url_metadata[u].since = NoTimestamp
    /\ [][\A u \in URLS :
             IF FailedAttemptOf(u)
             THEN /\ url_metadata'[u].retries = url_metadata[u].retries + 1
                  /\ url_metadata'[u].since # NoTimestamp
             ELSE /\ url_metadata'[u].retries = url_metadata[u].retries
                  /\ url_metadata'[u].retries >= url_metadata[u].retries]_vars

\* C11 witness: one URL has failed twice, is stamped and waits, not yet due,
\* in a pass that skipped it; the other failed once and was then stored with
\* its count still 1.
C11_Witness ==
    /\ entry = "run" /\ pc = "for"
    /\ \E u, v \in urls :
          /\ u \in remaining_urls /\ u \notin todo
          /\ url_metadata[u].retries = 2 /\ url_metadata[u].since >= 1
          /\ ~Eligible(url_metadata[u])
          /\ attempts[v] = <<"fail", "ok">> /\ Stored(v)
          /\ url_metadata[v].retries = 1

\* C12: a URL becomes Succeeded and is persisted only on a non-empty fetch
\* result: the scheduler never takes the success branch with an empty body,
\* and no content file written by run is empty.
C12_EmptyBodyIsNotSuccess ==
    entry = "run" =>
        /\ (pc = "fetched" /\ html_content.present) => html_content.text # <<>>
        /\ \A u \in urls :
              HtmlFileOf(u) \in DOMAIN disk => disk[HtmlFileOf(u)].text # <<>>

(* -------------------- vocabulary of the fetcher's claims ---------------- *)
\* the positions of trace where strategy s did kind
Events(s, kind) ==
    {i \in 1..Len(trace) : trace[i].strategy = s /\ trace[i].kind = kind}

\* the fetch method called with strategy s has returned to fetch_html
Returned(s) == Events(s, "return") # {}

\* what it returned
ResultOf(s) == trace[CHOOSE i \in Events(s, "return") : TRUE].html

\* the last fetch_html call has returned; html_content is its result
FetchReturned == entry \in {"fetch", "run"} /\ fetch = NoFetch /\ trace # <<>>

\* the primary strategy answered with a body holding a detection keyword
PrimaryFlagged ==
    \E i \in Events("requests", "body") :
        check_html_incomplete_load(trace[i].html.text)

\* C13 as claimed: with a detection keyword in the primary output, fetch
\* invokes the secondary strategy exactly once before it returns, for either
\* value of useRetries and whatever the secondary does.
C13_SecondaryExactlyOnce ==
    (FetchReturned /\ PrimaryFlagged) => calls.selenium = 1

\* C13 as amended: with a detection keyword in the primary output, fetch
\* invokes the secondary strategy at least once before it returns, and again
\* only after an invocation of it raised; HtmlFetcher.fetch_html invokes it
\* exactly once when useRetries is false and at most 1 + maxRetries times
\* when useRetries is true.
C13_SecondaryOnceOrRetried ==
    (FetchReturned /\ PrimaryFlagged) =>
        /\ calls.selenium >= 1
        /\ calls.selenium = 1 + Cardinality(Events("selenium", "raise"))
              - (IF Events("selenium", "body") = {} THEN 1 ELSE 0)
        /\ Events("selenium", "raise") = {} => calls.selenium = 1
        /\ (impl = "WebScraper" /\ ~cfg.use_retries) => calls.selenium = 1
        /\ (impl = "WebScraper" /\ cfg.use_retries)
              => calls.selenium <= 1 + cfg.max_retries

\* C13 witness: HtmlFetcher.fetch_html with useRetries true and maxRetries = 2
\* returned after a flagged primary body and three raising browser invocations.
C13_Witness ==
    /\ entry = "fetch" /\ impl = "WebScraper" /\ pc = "done"
    /\ cfg.use_retries /\ cfg.max_retries = 2
    /\ PrimaryFlagged
    /\ calls.selenium = 3 /\ Cardinality(Events("selenium", "raise")) = 3

\* a fetch result that is absent or holds a detection keyword
Incomplete(h) == ~h.present \/ \E i \in 1..Len(h.text) : h.text[i] \in Keywords

\* C14: in every fetch call the primary strategy runs first and never again
\* once the secondary has started; a body the primary answers with, flagged
\* or not, is returned by its fetch method at once (no retry of the primary);
\* the secondary is invoked if and only if the primary result is absent or
\* flagged; an unflagged primary body is the result of fetch, unchanged.
C14_PrimaryFirstFallbackIff ==
    entry \in {"fetch", "run"} =>
        /\ trace # <<>> => trace[1].strategy = "requests"
        /\ \A i, j \in 1..Len(trace) :
              (trace[i].strategy = "selenium" /\ i < j)
                 => trace[j].strategy = "selenium"
        /\ \A i \in Events("requests", "body") :
              /\ i + 1 <= Len(trace)
              /\ trace[i + 1] = Ev("requests", "return", trace[i].html)
        /\ calls.selenium >= 1 =>
              (Returned("requests") /\ Incomplete(ResultOf("requests")))
        /\ FetchReturned =>
              /\ Returned("requests")
              /\ IF Incomplete(ResultOf("requests"))
                 THEN calls.selenium >= 1
                 ELSE calls.selenium = 0 /\ html_content = ResultOf("requests")

\* C14 witness: a direct fetch call returned the browser's page after one
\* primary invocation that answered with a flagged body.
C14_Witness ==
    /\ entry = "fetch" /\ pc = "done" /\ FetchReturned
    /\ PrimaryFlagged /\ calls.requests = 1 /\ calls.selenium = 1
    /\ html_content = Html(<<"rendered">>)

\* some strategy answered with a body during the current fetch call
BodyObtained == Events("requests", "body") \cup Events("selenium", "body") # {}

\* C15: fetch returns absence only if both strategies failed to obtain
\* content: whenever either strategy produced a body during the call, the
\* result of fetch is not absent.
C15_BodyObtainedIsReturned ==
    (FetchReturned /\ BodyObtained) => html_content.present

\* C16: fetch never raises for network failures: no exception of a strategy
\* leaves fetch_html, and a fetch call in which every invocation of the
\* strategies raised returns absence, for either value of useRetries.
C16_NetworkFailuresReturnAbsence ==
    entry \in {"fetch", "run"} =>
        /\ raised # "fetch"
        /\ entry = "fetch" => pc # "raised"
        /\ (FetchReturned /\ ~BodyObtained) => html_content = NoHtml

\* C16 witness: a direct fetch call with useRetries true returned absence
\* after the primary and the secondary each raised on all three invocations.
C16_Witness ==
    /\ entry = "fetch" /\ impl = "WebScraper" /\ cfg.use_retries /\ pc = "done"
    /\ FetchReturned /\ html_content = NoHtml
    /\ Cardinality(Events("requests", "raise")) = 3
    /\ Cardinality(Events("selenium", "raise")) = 3

(* --------------------- vocabulary of the store's claims ----------------- *)
\* the k-th call made on the store, and the number of calls made
StoreOp(k) == store.ops[k]
NumOps == Len(store.ops)

\* the last call was load_html_from_disk and it returned a list
Loaded == NumOps >= 1 /\ StoreOp(NumOps).op = "load" /\ store.loaded.kind = "list"

\* the entries of the list it returned
LoadedEntries == {store.loaded.list[i] : i \in 1..Len(store.loaded.list)}

\* only completed writes (and loads) have touched the directory
OnlyCompletedWrites ==
    \A k \in 1..NumOps :
        StoreOp(k).op = "load" \/ (StoreOp(k).op = "write" /\ StoreOp(k).done = "ok")

\* the URLs written, and the content of the last write of u
UrlsWritten == {StoreOp(k).url : k \in {j \in 1..NumOps : StoreOp(j).op = "write"}}
LastWritten(u) ==
    LET ks == {k \in 1..NumOps : StoreOp(k).op = "write" /\ StoreOp(k).url = u}
    IN  StoreOp(CHOOSE k \in ks : \A j \in ks : j <= k).content

\* C17: a completed write(url, content) directly followed by a loadAll that
\* returns a list has in that list the pair {url, content} exactly as written.
C17_WriteThenLoadRoundTrip ==
    (entry = "store" /\ Loaded /\ NumOps >= 2
        /\ StoreOp(NumOps - 1).op = "write" /\ StoreOp(NumOps - 1).done = "ok")
    => [url |-> StoreOp(NumOps - 1).url, raw_html |-> StoreOp(NumOps - 1).content]
          \in LoadedEntries

\* C18: after any sequence of completed writes loadAll returns exactly one
\* entry per distinct URL written, carrying the content of the last write
\* for that URL.
C18_OneEntryPerUrlLastWriteWins ==
    (entry = "store" /\ NumOps >= 1 /\ StoreOp(NumOps).op = "load"
        /\ OnlyCompletedWrites)
    => /\ store.loaded.kind = "list"
       /\ Len(store.loaded.list) = Cardinality(UrlsWritten)
       /\ \A u \in UrlsWritten :
             [url |-> u, raw_html |-> LastWritten(u)] \in LoadedEntries

\* the metadata sibling of content file f is missing or malformed
SiblingBroken(f) ==
    LET sibling == FileName(f.stem, "json") IN
    \/ sibling \notin DOMAIN store.dir
    \/ store.dir[sibling].syntax # "object"
    \/ "url" \notin DOMAIN store.dir[sibling].members

\* C19: a loadAll over a directory in which some content file has a missing
\* or malformed metadata sibling propagates an error and returns no list,
\* neither a partial one nor one that passes the file over.
C19_LoadFailsLoudly ==
    (entry = "store" /\ NumOps >= 1 /\ StoreOp(NumOps).op = "load"
        /\ \E f \in DOMAIN store.dir : f.ext = "html" /\ SiblingBroken(f))
    => store.loaded = [kind |-> "raised", list |-> <<>>]

\* C19 witness: two URLs were written, the metadata file of one was then
\* damaged, and loadAll raised although the other pair was intact.
C19_Witness ==
    /\ entry = "store" /\ NumOps = 4 /\ StoreOp(4).op = "load"
    /\ StoreOp(3).op = "damage" /\ StoreOp(3).done = "invalid"
    /\ store.loaded.kind = "raised"
    /\ \E f, g \in DOMAIN store.dir :
          /\ f.ext = "html" /\ SiblingBroken(f)
          /\ g.ext = "html" /\ ~SiblingBroken(g)

\* C20: a search with the API key or the search-engine id missing raises a
\* configuration error before any HTTP request: it never returns, it makes
\* no network call and it performs no retry and no sleep.
C20_MissingCredentialRaisesFirst ==
    (entry = "search" /\ (~cfg.api_key \/ ~cfg.cx)) =>
        /\ pc \in {"call", "raised"}
        /\ pc = "raised" => raised = "config"
        /\ search.requests = 0
        /\ search.retries = 0
        /\ search.slept = <<>>

\* C20 witness: the search-engine id alone is missing, retries are
\* configured, and the search has raised the configuration error.
C20_Witness ==
    /\ entry = "search" /\ cfg.api_key /\ ~cfg.cx /\ cfg.max_retries >= 1
    /\ pc = "raised" /\ raised = "config"
    /\ search.requests = 0 /\ search.slept = <<>>

\* C21: with both credentials present, search makes at most the configured
\* number of requests, one after each failure; it sleeps after a failure, the
\* k-th sleep lasting retry_delay * 2^(k-1); it stops at the first answer and
\* returns the results of that answer; if every request fails it returns the
\* empty list; it never raises.
C21_SearchRetriesThenReturns ==
    (entry = "search" /\ cfg.api_key /\ cfg.cx) =>
        /\ pc # "raised" /\ raised = "none"
        /\ search.requests <= cfg.max_retries
        /\ search.requests \in {search.retries, search.retries + 1}
        /\ Len(search.slept) = search.retries
        /\ \A k \in 1..Len(search.slept) :
              search.slept[k] = cfg.initial_retry_delay * Pow2(k - 1)
        /\ pc = "done" =>
              IF search.requests = search.retries + 1
              THEN search.results =
                      [i \in 1..Len(search.response.items) |->
                          [link |-> search.response.items[i], rank |-> i]]
              ELSE /\ search.retries = cfg.max_retries
                   /\ search.results = <<>>

\* C21 witness: with three attempts allowed, two requests failed, the sleeps
\* were 6 and 12, and the third request answered with two items, which the
\* search returned.
C21_Witness ==
    /\ entry = "search" /\ pc = "done" /\ cfg.max_retries = 3
    /\ search.retries = 2 /\ search.requests = 3
    /\ search.slept = <<MaxInitialDelay, 2 * MaxInitialDelay>>
    /\ Len(search.results) = 2

\* C22: scrape(url) does not raise; when the URL was fetched it returns a
\* pair of the extracted text and a list of links, and when neither strategy
\* fetched it, it returns (None, []).
C22_ScrapeReturnsPair ==
    entry = "scrape" =>
        /\ pc # "raised" /\ raised = "none"
        /\ (pc = "done" /\ ~html_content.present) =>
              (page.returned /\ page.text = NoHtml /\ page.href_links = <<>>)
        /\ (pc = "done" /\ html_content.present) =>
              (page.returned /\ page.text.present)

\* the positions of the anchors of the given document that have an href
HrefPositions == {i \in 1..Len(page.doc.elems) :
                     page.doc.elems[i].tag = "a" /\ page.doc.elems[i].has_href}

\* the k-th of them in document order
HrefPosition(k) ==
    CHOOSE i \in HrefPositions :
        Cardinality({j \in HrefPositions : j < i}) = k - 1

\* C23: extract_links returns one entry per anchor element that has an
\* href, the k-th entry being the href of the k-th such anchor in document
\* order, duplicates kept; it returns the empty list for a document without
\* anchors and for absent input.
C23_LinksInDocumentOrder ==
    (entry = "links" /\ page.returned) =>
        /\ Len(page.href_links) = Cardinality(HrefPositions)
        /\ \A k \in 1..Len(page.href_links) :
              page.href_links[k] = page.doc.elems[HrefPosition(k)].href
        /\ ~page.doc.present => page.href_links = <<>>
        /\ (\A i \in 1..Len(page.doc.elems) : page.doc.elems[i].tag # "a")
              => page.href_links = <<>>

\* C23 witness: a document with an anchor without href between two anchors
\* with the same href gave that href twice.
C23_Witness ==
    /\ entry = "links" /\ page.returned
    /\ Len(page.doc.elems) = 3
    /\ page.doc.elems[1].tag = "a" /\ page.doc.elems[1].has_href
    /\ page.doc.elems[2].tag = "a" /\ ~page.doc.elems[2].has_href
    /\ page.doc.elems[3] = page.doc.elems[1]
    /\ page.href_links = <<"/x", "/x">>

\* u has left Pending as Succeeded
Succeeded(u) == u \in urls /\ u \notin remaining_urls /\ ~InFailed(u)

\* C24: persistence precedes the Succeeded transition: in every state of run
\* a Succeeded URL has its content file and its metadata file in the store,
\* the metadata naming the URL and the content file; a URL whose content
\* file alone is written is still Pending.
C24_SucceededImpliesStored ==
    entry = "run" =>
        \A u \in urls :
            /\ Succeeded(u) =>
                  /\ HtmlFileOf(u) \in DOMAIN disk
                  /\ JsonFileOf(u) \in DOMAIN disk
                  /\ disk[JsonFileOf(u)] = [url |-> u, file_name |-> HtmlFileOf(u)]
            /\ (HtmlFileOf(u) \in DOMAIN disk /\ JsonFileOf(u) \notin DOMAIN disk)
                  => u \in remaining_urls

\* C24 witness: one URL is Succeeded and stored while the other is between
\* its two writes, content file written, still Pending.
C24_Witness ==
    /\ entry = "run" /\ pc = "save_json" /\ url # 0
    /\ HtmlFileOf(url) \in DOMAIN disk /\ JsonFileOf(url) \notin DOMAIN disk
    /\ url \in remaining_urls
    /\ \E u \in urls : Succeeded(u) /\ Stored(u)

\* C25: the final outcome of run does not depend on the order in which the
\* URLs are visited: when run returns, whether a URL is in the failed set,
\* whether it is stored and its final retries are determined by the URL's
\* own sequence of attempt outcomes and maxRetries alone.
C25_OutcomeIsFunctionOfOwnAttempts ==
    (entry = "run" /\ pc = "done") =>
        \A u \in urls :
            LET n == Len(attempts[u])
                ok == n >= 1 /\ attempts[u][n] = "ok"
            IN
            /\ n >= 1
            /\ \A i \in 1..(n - 1) : attempts[u][i] = "fail"
            /\ url_metadata[u].retries = (IF ok THEN n - 1 ELSE n)
            /\ InFailed(u) <=> ~ok
            /\ Stored(u) <=> ok
            /\ ~ok => n = Max(1, cfg.max_retries)
            /\ ok => n <= Max(1, cfg.max_retries)

\* C25 witness: run returned with both URLs failed after two attempts each,
\* URL 2 having been given up before URL 1.
C25_Witness ==
    /\ entry = "run" /\ pc = "done" /\ cfg.max_retries = 2
    /\ failed_urls = <<2, 1>>
    /\ attempts[1] = <<"fail", "fail">> /\ attempts[2] = <<"fail", "fail">>

\* the number of invocations of strategy s that raised
Raises(s) == Cardinality(Events(s, "raise"))

\* C26: with use_retries, HtmlFetcher.fetch_html gives each strategy its own
\* retry budget: at most max_retries + 1 invocations of requests and at most
\* max_retries + 1 of selenium, so at most 2 * (max_retries + 1) in one
\* call; the k-th retry of a strategy is preceded by a sleep of
\* initial_retry_delay * 2^(k-1), and the last failed invocation of an
\* exhausted budget is followed by no sleep.
C26_EachStrategyOwnBudget ==
    (entry = "fetch" /\ impl = "WebScraper" /\ cfg.use_retries) =>
        /\ \A s \in {"requests", "selenium"} :
              /\ calls[s] <= cfg.max_retries + 1
              /\ Len(sleeps[s]) = Min(Raises(s), cfg.max_retries)
              /\ \A k \in 1..Len(sleeps[s]) :
                    sleeps[s][k] = cfg.initial_retry_delay * Pow2(k - 1)
              /\ calls[s] >= 1 =>
                    calls[s] = Raises(s) + Cardinality(Events(s, "body"))
                                         + Cardinality(Events(s, "hang"))
        /\ calls["requests"] + calls["selenium"] <= 2 * (cfg.max_retries + 1)
        /\ calls["selenium"] >= 1 => Returned("requests")

\* C26 witness: both budgets are spent in one call, four invocations each,
\* with three sleeps of 6, 12 and 24 between the invocations of a strategy.
C26_Witness ==
    /\ entry = "fetch" /\ impl = "WebScraper" /\ cfg.use_retries
    /\ cfg.max_retries = 3 /\ cfg.initial_retry_delay = 6
    /\ pc = "done"
    /\ calls["requests"] = 4 /\ calls["selenium"] = 4
    /\ sleeps["requests"] = <<6, 12, 24>> /\ sleeps["selenium"] = <<6, 12, 24>>

\* C27: a URL whose every attempt fails is fetched exactly
\* max(1, max_retries) times: for max_retries >= 1 retries never exceeds
\* max_retries and the URL is failed exactly when retries = max_retries; for
\* max_retries = 0 the URL is still attempted once and ends failed with
\* retries = 1, above max_retries.
C27_AllFailingUrlGetsMaxOneOrCapCalls ==
    entry = "run" =>
        \A u \in urls :
            LET n == Len(attempts[u])
                retries == url_metadata[u].retries
                cap == Max(1, cfg.max_retries)
            IN
            /\ (\A i \in 1..n : attempts[u][i] = "fail") =>
                  /\ n <= cap
                  /\ InFailed(u) => n = cap
                  /\ (pc \in {"for", "while", "done"} /\ url # u) =>
                        /\ retries = n
                        /\ InFailed(u) <=> n = cap
                        /\ InFailed(u) <=> u \notin remaining_urls
            /\ cfg.max_retries >= 1 =>
                  /\ retries <= cfg.max_retries
                  /\ InFailed(u) <=> retries = cfg.max_retries
            /\ cfg.max_retries = 0 =>
                  /\ retries <= 1
                  /\ InFailed(u) <=> retries = 1

\* C27 witness: with max_retries = 0 run returned having fetched a URL once
\* and failed it with retries = 1.
C27_Witness ==
    /\ entry = "run" /\ pc = "done" /\ cfg.max_retries = 0
    /\ \E u \in urls :
          /\ attempts[u] = <<"fail">>
          /\ InFailed(u)
          /\ url_metadata[u].retries = 1

\* C28: last_attempt_timestamp is the clock value sampled before the fetch
\* started, and the starts of consecutive attempts of one URL are at least
\* the backoff delay initial_retry_delay * 2^(retries-1) apart: whenever the
\* scheduler starts a further attempt of a URL, at least that delay has
\* passed since the start of the URL's previous attempt.
C28_AttemptStartsBackoffApart ==
    entry = "run" =>
        \A u \in urls :
            (url = u /\ pc = "fetching" /\ calls = NoCalls
                /\ url_metadata[u].retries >= 1) =>
                /\ url_metadata[u].since # NoTimestamp
                /\ 2 * url_metadata[u].since >=
                      2 * calculate_retry_delay(url_metadata[u].retries,
                                                cfg.initial_retry_delay)

\* operation k is a write of a URL no earlier write has completed for, and
\* it stopped between its two steps
FirstWriteInterrupted(k) ==
    /\ k \in 1..NumOps
    /\ StoreOp(k).op = "write" /\ StoreOp(k).done = "html_only"
    /\ \A j \in 1..(k - 1) :
          ~(StoreOp(j).op = "write" /\ StoreOp(j).url = StoreOp(k).url
              /\ StoreOp(j).done = "ok")

\* C29: save_html_to_disk is two steps, the content file first and the
\* metadata file second: after completed writes alone every content file has
\* a metadata sibling that names the URL the file belongs to; a first write
\* of a URL stopped between the two steps leaves the content file without
\* its sibling, and a load over that directory raises and returns no list,
\* whatever complete documents the directory holds.
C29_WriteIsTwoSteps ==
    entry = "store" =>
        /\ OnlyCompletedWrites =>
              \A f \in ContentFiles(store.dir) :
                  /\ MetadataReadable(store.dir, f)
                  /\ generate_hash(LoadEntry(store.dir, f).url) = f.stem
                  /\ LoadEntry(store.dir, f).url \in UrlsWritten
        /\ FirstWriteInterrupted(NumOps) =>
              LET f == FileName(generate_hash(StoreOp(NumOps).url), "html") IN
              /\ f \in DOMAIN store.dir
              /\ MetadataPath(f) \notin DOMAIN store.dir
        /\ (NumOps >= 2 /\ StoreOp(NumOps).op = "load"
              /\ FirstWriteInterrupted(NumOps - 1)) =>
              store.loaded = [kind |-> "raised", list |-> <<>>]

\* C29 witness: one URL was written completely, the first write of another
\* stopped after its content file, and the load that followed raised
\* although the first document was complete.
C29_Witness ==
    /\ entry = "store" /\ NumOps = 3
    /\ StoreOp(1).op = "write" /\ StoreOp(1).done = "ok"
    /\ FirstWriteInterrupted(2)
    /\ StoreOp(3).op = "load" /\ store.loaded.kind = "raised"
    /\ \E f, g \in ContentFiles(store.dir) :
          /\ MetadataPath(f) \notin DOMAIN store.dir
          /\ MetadataReadable(store.dir, g)

\* C30: an error raised by save_html_to_disk inside run is not caught: it
\* leaves run, which then takes no further step and returns no failure
\* list; the URL being persisted is neither Succeeded nor failed, it is
\* still Pending together with every URL that was Pending.
C30_StoreErrorLeavesRun ==
    entry = "run" =>
        /\ raised = "store" => pc = "raised"
        /\ pc = "raised" =>
              /\ raised = "store"
              /\ html_content.present
              /\ url \in remaining_urls
              /\ ~InFailed(url) /\ ~Succeeded(url) /\ ~Stored(url)
              /\ ~ENABLED Next

\* C30 witness: the metadata file of URL 1 could not be written; run was
\* left with URL 1 and URL 2 still Pending, URL 2 never fetched.
C30_Witness ==
    /\ entry = "run" /\ pc = "raised" /\ raised = "store"
    /\ url = 1 /\ remaining_urls = {1, 2}
    /\ HtmlFileOf(1) \in DOMAIN disk /\ JsonFileOf(1) \notin DOMAIN disk
    /\ attempts[2] = <<>>

\* the sum of a sequence of numbers
RECURSIVE SumSeq(_)
SumSeq(seq) == IF seq = <<>> THEN 0 ELSE Head(seq) + SumSeq(Tail(seq))

\* C31: search_google issues at most max_retries requests in total and
\* sleeps after every failed request, the last one included: the k-th
\* failure is followed by a sleep of retry_delay * 2^(k-1), so a search
\* whose every request fails has slept retry_delay * (2^max_retries - 1) in
\* total when it returns the empty list.
C31_SearchSleepsAfterEveryFailure ==
    (entry = "search" /\ cfg.api_key /\ cfg.cx /\ pc \in {"search_loop", "done", "hung"}) =>
        LET failures == search.retries IN
        /\ search.requests <= cfg.max_retries
        /\ failures <= search.requests
        /\ Len(search.slept) = failures
        /\ \A k \in 1..failures :
              search.slept[k] = cfg.initial_retry_delay * Pow2(k - 1)
        /\ SumSeq(search.slept) = cfg.initial_retry_delay * (Pow2(failures) - 1)
        /\ (pc = "done" /\ failures = search.requests) =>
              /\ search.requests = cfg.max_retries
              /\ search.results = <<>>
              /\ SumSeq(search.slept) =
                    cfg.initial_retry_delay * (Pow2(cfg.max_retries) - 1)

\* C31 witness: with max_retries = 3 and a delay of 6 all three requests
\* failed, the sleeps were 6, 12 and 24, the last one after the last
\* request, and the search returned the empty list.
C31_Witness ==
    /\ entry = "search" /\ pc = "done"
    /\ cfg.max_retries = 3 /\ cfg.initial_retry_delay = 6
    /\ search.requests = 3 /\ search.retries = 3
    /\ search.slept = <<6, 12, 24>>
    /\ SumSeq(search.slept) = 42
    /\ search.results = <<>>

\* C32: in every state of the scheduler and for every URL,
\* last_attempt_timestamp is unset exactly when retries = 0, so the delay
\* computed for retries = 0 never gates an attempt; the delay that gates a
\* Pending URL is initial_retry_delay * 2^(retries-1) with retries >= 1.
C32_UnsetIffNoRetries ==
    entry = "run" =>
        \A u \in urls :
            LET m == url_metadata[u] IN
            /\ m.since = NoTimestamp <=> m.retries = 0
            /\ (u \in remaining_urls /\ m.since # NoTimestamp) =>
                  /\ m.retries >= 1
                  /\ calculate_retry_delay_x2(m.retries, BackoffBase)
                        = 2 * (cfg.initial_retry_delay * Pow2(m.retries - 1))

====
